---- MODULE Spec2Model ----
(***************************************************************************)
(* Session-authenticated billing backend (src/app.py).                     *)
(*                                                                         *)
(* State: the Redis session store, the uuids handed out so far, the        *)
(* access configuration loaded at start-up, and the request being served   *)
(* together with the response produced for it.  One action per endpoint;   *)
(* Tick lets one second pass in the session store.                         *)
(***************************************************************************)
EXTENDS Integers, Sequences, FiniteSets, TLC

VARIABLES redis_db, issued, acl, request, response

vars == <<redis_db, issued, acl, request, response>>

(* ------------------------------------------------------------------ *)
(* Bounds and program constants                                        *)
(* ------------------------------------------------------------------ *)

\* largest bill amount a form or a BILL row carries
MaxAmount == 2

\* SESSION_DURATION = datetime.timedelta(seconds = 15); total_seconds()
SESSION_DURATION == 15

\* the literal ttl of redis_db.setex(session_id, 15, ...)
SETEX_TTL == 15

SESSION_COOKIE_NAME == "session_token"

WELCOME_URL == "https://168.138.178.200"

\* values str(uuid.uuid4()) can take
Tokens == {"t1", "t2"}

\* a request without the session_token cookie (Cookie(default=None))
NoCookie == "None"

\* a session_token cookie with an empty value
EmptyCookie == ""

\* the session ids handed out when the POST endpoints are exercised as well
BillingTokens == {"t1"}

Cookies == Tokens \cup {NoCookie, EmptyCookie}

\* Python's None as a role
NoneRole == "None"

\* subjects an identity server can put in a JWT, as character sequences
Subjects ==
    { <<>>,
      <<"a">>,
      <<"a", "_", "u", "1">>,
      <<"b", "_", "u", "2">>,
      <<"c", "_", "u", "3">> }

\* the users who log in when two sessions are followed side by side
SessionSubjects ==
    { <<>>,
      <<"a", "_", "u", "1">>,
      <<"b", "_", "u", "2">> }

Amounts == 1..MaxAmount

(* ------------------------------------------------------------------ *)
(* Pure helpers                                                        *)
(* ------------------------------------------------------------------ *)

\* str.endswith
EndsWith(s, suffix) ==
    /\ Len(s) >= Len(suffix)
    /\ SubSeq(s, Len(s) - Len(suffix) + 1, Len(s)) = suffix

\* get_role: falls off the end (returns None) when no suffix matches
get_role(username) ==
    IF EndsWith(username, <<"_", "u", "1">>) THEN "customer"
    ELSE IF EndsWith(username, <<"_", "u", "2">>) THEN "bank_cashier"
    ELSE IF EndsWith(username, <<"_", "u", "3">>) THEN "disco_employee"
    ELSE NoneRole

\* json.dumps of {"username": ..., "role": ...}: None is written as null
json_dumps(payload) ==
    << "username", payload.username,
       "role", IF payload.role = NoneRole THEN "null" ELSE payload.role >>

\* json.loads of such a document: null is read as None
json_loads(doc) ==
    [ username |-> doc[2],
      role     |-> IF doc[4] = "null" THEN NoneRole ELSE doc[4] ]

(* ------------------------------------------------------------------ *)
(* The session store (redis.StrictRedis)                               *)
(* ------------------------------------------------------------------ *)

\* redis_db.get(key) returns a value (not nil)
redis_has(db, key) == key \in DOMAIN db

redis_get(db, key) == db[key].value

\* redis_db.setex(key, ttl, value); age counts the seconds since the write
redis_setex(db, key, ttl, value) ==
    [ k \in DOMAIN db \cup {key} |->
        IF k = key THEN [value |-> value, ttl |-> ttl, age |-> 0] ELSE db[k] ]

\* redis_db.delete(key)
redis_delete(db, key) ==
    [ k \in DOMAIN db \ {key} |-> db[k] ]

\* one second passes: every ttl counts down, keys at zero are dropped
redis_expire(db) ==
    [ k \in { j \in DOMAIN db : db[j].ttl > 1 } |->
        [ db[k] EXCEPT !.ttl = @ - 1, !.age = @ + 1 ] ]

(* ------------------------------------------------------------------ *)
(* Requests and responses                                              *)
(* ------------------------------------------------------------------ *)

\* the token endpoint was not contacted
NoIdp == [ contacted |-> FALSE, http_ok |-> FALSE, has_token |-> FALSE,
           sig_ok |-> FALSE, expired |-> FALSE, has_sub |-> FALSE, sub |-> <<>> ]

\* answers of the identity server to requests.post(token_url, ...), as far as
\* the handler reads them: a failed request, a body without "token", a JWT
\* whose signature does not verify, an expired JWT, a JWT without "sub", a JWT
\* with a subject
IdpAnswersFor(subjects) ==
    { [ NoIdp EXCEPT !.contacted = TRUE ],
      [ NoIdp EXCEPT !.contacted = TRUE, !.http_ok = TRUE ] }
    \cup [ contacted : {TRUE}, http_ok : {TRUE}, has_token : {TRUE},
           sig_ok : {FALSE}, expired : BOOLEAN, has_sub : {FALSE}, sub : {<<>>} ]
    \cup [ contacted : {TRUE}, http_ok : {TRUE}, has_token : {TRUE},
           sig_ok : {TRUE}, expired : {TRUE}, has_sub : {FALSE}, sub : {<<>>} ]
    \cup [ contacted : {TRUE}, http_ok : {TRUE}, has_token : {TRUE},
           sig_ok : {TRUE}, expired : {FALSE}, has_sub : {FALSE}, sub : {<<>>} ]
    \cup [ contacted : {TRUE}, http_ok : {TRUE}, has_token : {TRUE},
           sig_ok : {TRUE}, expired : {FALSE}, has_sub : {TRUE}, sub : subjects ]

\* no database answer was read
NoDb == [ bill_found |-> FALSE, amount_due |-> 0, payment_status |-> "notqueried",
          method_found |-> FALSE, func_result |-> -1, bill_data_ok |-> FALSE ]

\* no form field was submitted
NoForm == [ original_bill_amount |-> 0 ]

NoUser == [ username |-> <<>>, role |-> NoneRole ]

NoExc == [ status_code |-> 0, detail |-> "" ]

Req(method, route, cookie) ==
    [ method |-> method, route |-> route, cookie |-> cookie, code |-> "None",
      idp |-> NoIdp, form |-> NoForm, db |-> NoDb ]

\* no request is being served
NoRequest == Req("", "", NoCookie)

\* what serving a request produced: the HTTP response, the exception raised on
\* the way (exc), the identity handed to the handler (user), the function the
\* access controller was asked about (acl_query), the database statements and
\* functions executed (db_calls), and whether the endpoint's body was entered
BaseResponse ==
    [ status_code |-> 0, kind |-> "", body |-> "", location |-> "",
      set_cookie |-> "None", max_age |-> 0, delete_cookie |-> FALSE,
      exc |-> NoExc, user |-> NoUser, acl_query |-> "", db_calls |-> {},
      handler_ran |-> FALSE ]

NoResponse == BaseResponse

\* templates.TemplateResponse(name, ...)
TemplateResponse(name) ==
    [ BaseResponse EXCEPT !.status_code = 200, !.kind = "html", !.body = name ]

\* RedirectResponse(url, status_code = 302)
RedirectResponse(url) ==
    [ BaseResponse EXCEPT !.status_code = 302, !.kind = "redirect", !.location = url ]

\* JSONResponse(status_code, content = {"detail": detail})
JSONResponse(status_code, detail) ==
    [ BaseResponse EXCEPT !.status_code = status_code, !.kind = "json", !.body = detail ]

\* an exception no handler catches: the server's plain 500
ServerError ==
    [ BaseResponse EXCEPT !.status_code = 500, !.kind = "crash",
                          !.body = "Internal Server Error" ]

HTTPException(status_code, detail) == [ status_code |-> status_code, detail |-> detail ]

\* custom_http_exception_handler without the expired-token redirect
custom_http_exception_handler_json_only(exc) ==
    [ JSONResponse(exc.status_code, exc.detail) EXCEPT !.exc = exc ]

\* custom_http_exception_handler
custom_http_exception_handler(exc) ==
    IF exc.status_code = 401 /\ exc.detail = "Token has expired"
    THEN [ RedirectResponse(WELCOME_URL) EXCEPT !.exc = exc ]
    ELSE [ JSONResponse(exc.status_code, exc.detail) EXCEPT !.exc = exc ]

(* ------------------------------------------------------------------ *)
(* Access controller (access_ctrl.AccessController, access.cfg)        *)
(* ------------------------------------------------------------------ *)

Roles == {"customer", "bank_cashier", "disco_employee"}

\* role -> allowed functions mappings access.cfg can hold
AccessCfgs ==
    { [ customer       |-> {"/bill-retrieval"},
        bank_cashier   |-> {"/bill-retrieval", "/bill-payment"},
        disco_employee |-> {"/bill-retrieval", "/bill-adjustments"} ],
      [ customer       |-> {"/bill-retrieval"},
        bank_cashier   |-> {"/bill-retrieval", "/bill-payment"},
        disco_employee |-> {"/bill-retrieval", "/bill-adjustment"} ] }

\* access_ctrl.is_allowed(role, function)
is_allowed(cfg, role, function) ==
    /\ role \in DOMAIN cfg
    /\ function \in cfg[role]

(* ------------------------------------------------------------------ *)
(* Session validation                                                  *)
(* ------------------------------------------------------------------ *)

\* validate_session: either raises (ok = FALSE, exc) or returns the identity
validate_session(db, session_token) ==
    IF session_token = NoCookie \/ session_token = EmptyCookie
    THEN [ ok |-> FALSE, user |-> NoUser,
           exc |-> HTTPException(401, "Not authenticated. Session token missing") ]
    ELSE IF ~ redis_has(db, session_token)
    THEN [ ok |-> FALSE, user |-> NoUser,
           exc |-> HTTPException(401, "Token has expired") ]
    ELSE LET session_payload == json_loads(redis_get(db, session_token))
             username == session_payload.username
         IN  IF username = <<>>
             THEN [ ok |-> FALSE, user |-> NoUser,
                    exc |-> HTTPException(401, "Username missing in session token") ]
             ELSE [ ok |-> TRUE, exc |-> NoExc,
                    user |-> [ username |-> username, role |-> get_role(username) ] ]

(* ------------------------------------------------------------------ *)
(* Endpoints                                                           *)
(* ------------------------------------------------------------------ *)

\* GET /
get_index ==
    /\ request' = Req("GET", "/", NoCookie)
    /\ response' = [ TemplateResponse("index.html") EXCEPT !.handler_ran = TRUE ]
    /\ UNCHANGED <<redis_db, issued, acl>>

\* callback_result without the check of the subject
callback_result_no_sub_check(code, idp, session_id) ==
    IF code = "None"
    THEN [ store |-> FALSE,
           resp  |-> custom_http_exception_handler(
                       HTTPException(400, "Authorization code not provided/missing.")) ]
    ELSE IF ~ idp.http_ok
    THEN [ store |-> FALSE,
           resp  |-> custom_http_exception_handler(
                       HTTPException(500, "Error fetching token")) ]
    ELSE IF ~ idp.has_token
    THEN [ store |-> FALSE,
           resp  |-> custom_http_exception_handler(
                       HTTPException(401, "Failed to retrieve token.")) ]
    ELSE IF ~ idp.sig_ok
    THEN [ store |-> FALSE,
           resp  |-> custom_http_exception_handler(
                       HTTPException(401, "Invalid Token")) ]
    ELSE IF idp.expired
    THEN [ store |-> FALSE,
           resp  |-> custom_http_exception_handler(
                       HTTPException(401, "Token has expired")) ]
    ELSE [ store |-> TRUE,
           resp  |-> [ RedirectResponse("/dashboard") EXCEPT
                         !.set_cookie = session_id,
                         !.max_age = SESSION_DURATION ] ]

\* what POST /callback answers and, on success, the session it stores
callback_result(code, idp, session_id) ==
    IF code = "None"
    THEN [ store |-> FALSE,
           resp  |-> custom_http_exception_handler(
                       HTTPException(400, "Authorization code not provided/missing.")) ]
    ELSE IF ~ idp.http_ok
    THEN [ store |-> FALSE,
           resp  |-> custom_http_exception_handler(
                       HTTPException(500, "Error fetching token")) ]
    ELSE IF ~ idp.has_token
    THEN [ store |-> FALSE,
           resp  |-> custom_http_exception_handler(
                       HTTPException(401, "Failed to retrieve token.")) ]
    ELSE IF ~ idp.sig_ok
    THEN [ store |-> FALSE,
           resp  |-> custom_http_exception_handler(
                       HTTPException(401, "Invalid Token")) ]
    ELSE IF idp.expired
    THEN [ store |-> FALSE,
           resp  |-> custom_http_exception_handler(
                       HTTPException(401, "Token has expired")) ]
    ELSE IF ~ idp.has_sub \/ idp.sub = <<>>
    THEN [ store |-> FALSE,
           resp  |-> custom_http_exception_handler(
                       HTTPException(401, "Invalid Token: Missing Username")) ]
    ELSE [ store |-> TRUE,
           resp  |-> [ RedirectResponse("/dashboard") EXCEPT
                         !.set_cookie = session_id,
                         !.max_age = SESSION_DURATION ] ]

\* getAccessToken writing the session before the JWT is decoded
getAccessToken_store_first(code, idp, session_id) ==
    LET r == callback_result(code, idp, session_id)
    IN  /\ request' = [ Req("POST", "/callback", NoCookie) EXCEPT
                          !.code = code, !.idp = idp ]
        /\ response' = [ r.resp EXCEPT !.handler_ran = TRUE ]
        /\ IF idp.has_token
           THEN /\ redis_db' = redis_setex(redis_db, "t1", SETEX_TTL,
                                 json_dumps([ username |-> idp.sub, role |-> NoneRole ]))
                /\ issued' = issued \cup {"t1"}
           ELSE UNCHANGED <<redis_db, issued>>
        /\ UNCHANGED acl

\* POST /callback
getAccessToken(code, idp, session_id) ==
    LET r == callback_result(code, idp, session_id)
    IN  /\ request' = [ Req("POST", "/callback", NoCookie) EXCEPT
                          !.code = code, !.idp = idp ]
        /\ response' = [ r.resp EXCEPT !.handler_ran = TRUE ]
        /\ IF r.store
           THEN /\ redis_db' = redis_setex(redis_db, session_id, SETEX_TTL,
                                 json_dumps([ username |-> idp.sub, role |-> NoneRole ]))
                /\ issued' = issued \cup {session_id}
           ELSE UNCHANGED <<redis_db, issued>>
        /\ UNCHANGED acl

\* sign_out that clears the cookie but leaves the record in the store
sign_out_keep_record(session_token) ==
    /\ request' = Req("GET", "/sign-out", session_token)
    /\ redis_db' = redis_db
    /\ response' = [ RedirectResponse(WELCOME_URL) EXCEPT
                       !.delete_cookie = TRUE, !.handler_ran = TRUE ]
    /\ UNCHANGED <<issued, acl>>

\* GET /sign-out
sign_out(session_token) ==
    /\ request' = Req("GET", "/sign-out", session_token)
    /\ redis_db' = IF session_token # NoCookie /\ session_token # EmptyCookie
                   THEN redis_delete(redis_db, session_token)
                   ELSE redis_db
    /\ response' = [ RedirectResponse(WELCOME_URL) EXCEPT
                       !.delete_cookie = TRUE, !.handler_ran = TRUE ]
    /\ UNCHANGED <<issued, acl>>

\* get_dashboard renewing the ttl of the session it serves
get_dashboard_sliding(session_token) ==
    LET v == validate_session(redis_db, session_token)
    IN  /\ request' = Req("GET", "/dashboard", session_token)
        /\ response' =
             IF ~ v.ok THEN custom_http_exception_handler(v.exc)
             ELSE [ TemplateResponse("dashboard.html") EXCEPT
                      !.user = v.user, !.handler_ran = TRUE ]
        /\ redis_db' =
             IF ~ v.ok THEN redis_db
             ELSE [ redis_db EXCEPT ![session_token].ttl = SETEX_TTL ]
        /\ UNCHANGED <<issued, acl>>

\* GET /dashboard
get_dashboard(session_token) ==
    LET v == validate_session(redis_db, session_token)
    IN  /\ request' = Req("GET", "/dashboard", session_token)
        /\ response' =
             IF ~ v.ok THEN custom_http_exception_handler(v.exc)
             ELSE [ TemplateResponse("dashboard.html") EXCEPT
                      !.user = v.user, !.handler_ran = TRUE ]
        /\ UNCHANGED <<redis_db, issued, acl>>

\* the three GET pages behind the access controller: route is where the
\* handler is mounted, function the string it asks the controller about
get_page(route, function, template, session_token) ==
    LET v == validate_session(redis_db, session_token)
    IN  /\ request' = Req("GET", route, session_token)
        /\ response' =
             IF ~ v.ok THEN custom_http_exception_handler(v.exc)
             ELSE IF ~ is_allowed(acl, v.user.role, function)
             THEN [ custom_http_exception_handler(HTTPException(403, "Forbidden"))
                      EXCEPT !.user = v.user, !.acl_query = function,
                             !.handler_ran = TRUE ]
             ELSE [ TemplateResponse(template) EXCEPT
                      !.user = v.user, !.acl_query = function,
                      !.handler_ran = TRUE ]
        /\ UNCHANGED <<redis_db, issued, acl>>

\* GET /bill-payment
get_bill_payment(session_token) ==
    get_page("/bill-payment", "/bill-payment", "bill_payment.html", session_token)

\* GET /bill-retrieval
get_bill_retrieval(session_token) ==
    get_page("/bill-retrieval", "/bill-retrieval", "bill_retrieval.html", session_token)

\* GET /bill-adjustments
get_bill_adjustment(session_token) ==
    get_page("/bill-adjustments", "/bill-adjustment", "bill_adjustments.html",
             session_token)

\* database answers POST /bill-payment can read, in the order it reads them:
\* the BILL row, the value of fun_process_Payment, the PAYMENTDETAILS row
\* (absent, or a PaymentStatus), the PaymentMethods row
PaymentDbAnswers ==
    { NoDb,
      [ NoDb EXCEPT !.bill_found = TRUE, !.func_result = 0 ],
      [ NoDb EXCEPT !.bill_found = TRUE, !.func_result = 1,
                    !.payment_status = "norow" ] }
    \cup { [ NoDb EXCEPT !.bill_found = TRUE, !.func_result = 1,
                         !.payment_status = ps, !.method_found = m ] :
             ps \in {"paid", "unpaid"}, m \in BOOLEAN }

\* POST /bill-payment: no Depends(validate_session), no access_ctrl call
post_bill_payment(cookie, db) ==
    /\ request' = [ Req("POST", "/bill-payment", cookie) EXCEPT !.db = db ]
    /\ response' =
         IF ~ db.bill_found
         THEN [ TemplateResponse("error.html") EXCEPT
                  !.db_calls = {"bill_query"}, !.handler_ran = TRUE ]
         ELSE IF db.func_result # 1
         THEN [ TemplateResponse("error.html") EXCEPT
                  !.db_calls = {"bill_query", "fun_process_Payment"},
                  !.handler_ran = TRUE ]
         ELSE IF db.payment_status = "norow"
         THEN [ ServerError EXCEPT
                  !.db_calls = {"bill_query", "fun_process_Payment",
                                "paymentstatus_query"},
                  !.handler_ran = TRUE ]
         ELSE IF ~ db.method_found
         THEN [ ServerError EXCEPT
                  !.db_calls = {"bill_query", "fun_process_Payment",
                                "paymentstatus_query", "paymentmethod_query"},
                  !.handler_ran = TRUE ]
         ELSE [ TemplateResponse("payment_receipt.html") EXCEPT
                  !.db_calls = {"bill_query", "fun_process_Payment",
                                "paymentstatus_query", "paymentmethod_query"},
                  !.handler_ran = TRUE ]
    /\ UNCHANGED <<redis_db, issued, acl>>

\* get_bill_data either returns the ten result sets or raises
RetrievalDbAnswers ==
    { [ NoDb EXCEPT !.bill_data_ok = ok ] : ok \in BOOLEAN }

\* POST /bill-retrieval: no Depends(validate_session), no access_ctrl call
post_bill_retrieval(cookie, db) ==
    /\ request' = [ Req("POST", "/bill-retrieval", cookie) EXCEPT !.db = db ]
    /\ response' =
         IF db.bill_data_ok
         THEN [ TemplateResponse("bill_details.html") EXCEPT
                  !.db_calls = {"get_bill_data"}, !.handler_ran = TRUE ]
         ELSE [ TemplateResponse("error.html") EXCEPT
                  !.db_calls = {"get_bill_data"}, !.handler_ran = TRUE ]
    /\ UNCHANGED <<redis_db, issued, acl>>

\* database answers POST /bill-adjustments can read for a submitted
\* original_bill_amount, in the order it reads them: the BILL row with
\* TotalAmount_BeforeDueDate, the PAYMENTDETAILS row (absent, or a PaymentStatus
\* that is truthy for a paid bill), the value of fun_adjust_Bill
AdjustmentDbAnswers(original_bill_amount) ==
    { NoDb }
    \cup { [ NoDb EXCEPT !.bill_found = TRUE, !.amount_due = a ] :
             a \in Amounts \ {original_bill_amount} }
    \cup { [ NoDb EXCEPT !.bill_found = TRUE, !.amount_due = original_bill_amount,
                         !.payment_status = ps ] : ps \in {"norow", "paid"} }
    \cup { [ NoDb EXCEPT !.bill_found = TRUE, !.amount_due = original_bill_amount,
                         !.payment_status = "unpaid", !.func_result = r ] :
             r \in {0, 1} }

\* post_bill_adjustments without the check of the payment status
post_bill_adjustments_no_paid_check(cookie, original_bill_amount, db) ==
    /\ request' = [ Req("POST", "/bill-adjustments", cookie) EXCEPT
                      !.form = [ original_bill_amount |-> original_bill_amount ],
                      !.db = db ]
    /\ response' =
         IF ~ db.bill_found
         THEN [ TemplateResponse("error.html") EXCEPT
                  !.db_calls = {"bill_query"}, !.handler_ran = TRUE ]
         ELSE IF original_bill_amount # db.amount_due
         THEN [ TemplateResponse("error.html") EXCEPT
                  !.db_calls = {"bill_query"}, !.handler_ran = TRUE ]
         ELSE IF db.func_result = 1
         THEN [ TemplateResponse("adjustment_receipt.html") EXCEPT
                  !.db_calls = {"bill_query", "fun_adjust_Bill"},
                  !.handler_ran = TRUE ]
         ELSE [ TemplateResponse("error.html") EXCEPT
                  !.db_calls = {"bill_query", "fun_adjust_Bill"},
                  !.handler_ran = TRUE ]
    /\ UNCHANGED <<redis_db, issued, acl>>

\* POST /bill-adjustments: no Depends(validate_session), no access_ctrl call
post_bill_adjustments(cookie, original_bill_amount, db) ==
    /\ request' = [ Req("POST", "/bill-adjustments", cookie) EXCEPT
                      !.form = [ original_bill_amount |-> original_bill_amount ],
                      !.db = db ]
    /\ response' =
         IF ~ db.bill_found
         THEN [ TemplateResponse("error.html") EXCEPT
                  !.db_calls = {"bill_query"}, !.handler_ran = TRUE ]
         ELSE IF original_bill_amount # db.amount_due
         THEN [ TemplateResponse("error.html") EXCEPT
                  !.db_calls = {"bill_query"}, !.handler_ran = TRUE ]
         ELSE IF db.payment_status = "norow"
         THEN [ ServerError EXCEPT
                  !.db_calls = {"bill_query", "paymentstatus_query"},
                  !.handler_ran = TRUE ]
         ELSE IF db.payment_status = "paid"
         THEN [ TemplateResponse("error.html") EXCEPT
                  !.db_calls = {"bill_query", "paymentstatus_query"},
                  !.handler_ran = TRUE ]
         ELSE IF db.func_result = 1
         THEN [ TemplateResponse("adjustment_receipt.html") EXCEPT
                  !.db_calls = {"bill_query", "paymentstatus_query",
                                "fun_adjust_Bill"},
                  !.handler_ran = TRUE ]
         ELSE [ TemplateResponse("error.html") EXCEPT
                  !.db_calls = {"bill_query", "paymentstatus_query",
                                "fun_adjust_Bill"},
                  !.handler_ran = TRUE ]
    /\ UNCHANGED <<redis_db, issued, acl>>

\* one second passes while no request is being served
Tick ==
    /\ redis_db' = redis_expire(redis_db)
    /\ request' = NoRequest
    /\ response' = NoResponse
    /\ UNCHANGED <<issued, acl>>

(* ------------------------------------------------------------------ *)
(* Specification                                                       *)
(* ------------------------------------------------------------------ *)

\* an empty session store, no uuid handed out, access.cfg loaded
Init ==
    /\ redis_db = [ k \in {} |-> 0 ]
    /\ issued = {}
    /\ acl \in AccessCfgs
    /\ request = NoRequest
    /\ response = NoResponse

\* POST /callback without a code never contacts the identity server
CallbackNoCode == getAccessToken("None", NoIdp, "None")

\* POST /callback with a code; when every check passes, uuid4 yields a value of
\* ids that was not handed out before; subjects are the users who log in
CallbackWithCode(ids, subjects) ==
    \E idp \in IdpAnswersFor(subjects) :
        IF callback_result("code", idp, "None").store
        THEN \E session_id \in ids \ issued :
                getAccessToken("code", idp, session_id)
        ELSE getAccessToken("code", idp, "None")

\* the whole application, one session id available
Next ==
    \/ get_index
    \/ CallbackNoCode
    \/ CallbackWithCode(BillingTokens, Subjects)
    \/ \E c \in Cookies : sign_out(c)
    \/ \E c \in Cookies : get_dashboard(c)
    \/ \E c \in Cookies : get_bill_payment(c)
    \/ \E c \in Cookies : get_bill_retrieval(c)
    \/ \E c \in Cookies : get_bill_adjustment(c)
    \/ \E c \in Cookies : \E db \in PaymentDbAnswers : post_bill_payment(c, db)
    \/ \E c \in Cookies : \E db \in RetrievalDbAnswers : post_bill_retrieval(c, db)
    \/ \E c \in Cookies : \E a \in Amounts :
          \E db \in AdjustmentDbAnswers(a) : post_bill_adjustments(c, a, db)
    \/ Tick

Spec == Init /\ [][Next]_vars

\* the endpoints that read or write the session store, two session ids and
\* the users of SessionSubjects
NextSessions ==
    \/ get_index
    \/ CallbackNoCode
    \/ CallbackWithCode(Tokens, SessionSubjects)
    \/ \E c \in Cookies : sign_out(c)
    \/ \E c \in Cookies : get_dashboard(c)
    \/ \E c \in Cookies : get_bill_payment(c)
    \/ \E c \in Cookies : get_bill_retrieval(c)
    \/ \E c \in Cookies : get_bill_adjustment(c)
    \/ Tick

SpecSessions == Init /\ [][NextSessions]_vars

(* ------------------------------------------------------------------ *)
(* Vocabulary of the properties                                        *)
(* ------------------------------------------------------------------ *)

\* the routes defined below the sign-out endpoint
RoutesBelowSignOut ==
    {"/dashboard", "/bill-payment", "/bill-retrieval", "/bill-adjustments"}

\* the billing pages
BillingRoutes == {"/bill-payment", "/bill-retrieval", "/bill-adjustments"}

\* the handler rendered a page or touched the database
BodyRan == response.kind = "html" \/ response.db_calls # {}

\* validate_session returned an identity to the handler
Validated == response.user # NoUser

\* the request went to an endpoint declared with Depends(validate_session)
ToSessionProtected ==
    request.method = "GET" /\ request.route \in RoutesBelowSignOut

\* the role validate_session would resolve for the request being served
RequestRole == validate_session(redis_db, request.cookie).user.role

(* ------------------------------------------------------------------ *)
(* C1                                                                  *)
(* ------------------------------------------------------------------ *)

\* C1: no handler below the sign-out endpoint renders a page or touches the
\* database unless the request carries a session cookie whose record is in
\* the session store.
C1_AllBelowSignOutProtected ==
    (request.route \in RoutesBelowSignOut /\ BodyRan)
        => redis_has(redis_db, request.cookie)

(* ------------------------------------------------------------------ *)
(* C2                                                                  *)
(* ------------------------------------------------------------------ *)

\* C2: a POST to a billing route from a session whose role (one of the three)
\* the access controller does not allow for that route is answered 403 and
\* reaches no database call.
C2_PostAccessControlled ==
    ( /\ request.method = "POST"
      /\ request.route \in BillingRoutes
      /\ validate_session(redis_db, request.cookie).ok
      /\ RequestRole \in Roles
      /\ ~ is_allowed(acl, RequestRole, request.route) )
        => (response.status_code = 403 /\ response.db_calls = {})

(* ------------------------------------------------------------------ *)
(* C3                                                                  *)
(* ------------------------------------------------------------------ *)

\* C3: the GET handler of a billing route R, serving a session with one of the
\* three roles, asks the access controller about R itself, renders the page
\* only when the role is allowed R and answers 403 otherwise.
C3_GetAsksOwnRoute ==
    ( /\ request.method = "GET"
      /\ request.route \in BillingRoutes
      /\ Validated
      /\ response.user.role \in Roles )
        => /\ response.acl_query = request.route
           /\ response.kind = "html"
                <=> is_allowed(acl, response.user.role, request.route)
           /\ ~ is_allowed(acl, response.user.role, request.route)
                => response.status_code = 403

(* ------------------------------------------------------------------ *)
(* C4                                                                  *)
(* ------------------------------------------------------------------ *)

\* every stored session has a uuid of /callback as key and a non-empty
\* username, and validate_session has not raised its missing-username error
C4_StoredSessionsSound ==
    /\ \A k \in DOMAIN redis_db :
          /\ k \in issued
          /\ json_loads(redis_get(redis_db, k)).username # <<>>
    /\ response.exc.detail # "Username missing in session token"

\* a step that puts a record into the store, or changes a stored payload, is
\* a /callback that sent a code, got a JWT whose signature verified and whose
\* subject is the non-empty username written
C4_WrittenByCallback ==
    \A k \in DOMAIN redis_db' :
        (k \notin DOMAIN redis_db \/ redis_db'[k].value # redis_db[k].value)
            => /\ request'.route = "/callback"
               /\ request'.code # "None"
               /\ request'.idp.has_token
               /\ request'.idp.sig_ok
               /\ request'.idp.sub # <<>>
               /\ json_loads(redis_db'[k].value).username = request'.idp.sub
               /\ response'.set_cookie = k

\* C4: in every reachable state every record of the session store was written
\* by a /callback that exchanged a code for a JWT, verified its signature and
\* extracted a non-empty subject; every stored session carries a non-empty
\* username and validate_session never raises 'Username missing in session
\* token'.
C4_SessionsComeFromCallback ==
    [] C4_StoredSessionsSound /\ [][C4_WrittenByCallback]_vars

\* a stored session is being served by a validated handler
C4_Witness ==
    /\ Validated
    /\ redis_has(redis_db, request.cookie)
    /\ response.body = "dashboard.html"

(* ------------------------------------------------------------------ *)
(* C5                                                                  *)
(* ------------------------------------------------------------------ *)

\* C5: a request to a session-protected route with a session cookie whose
\* record is not in the store is answered by a 302 redirect to the welcome
\* page, one without a session cookie by a 401 JSON error; neither renders
\* the page.
C5_ExpiredRedirectsMissingIs401 ==
    ToSessionProtected =>
        /\ (request.cookie \in Tokens /\ ~ redis_has(redis_db, request.cookie))
             => /\ response.status_code = 302
                /\ response.kind = "redirect"
                /\ response.location = WELCOME_URL
                /\ ~ BodyRan
        /\ request.cookie = NoCookie
             => /\ response.status_code = 401
                /\ response.kind = "json"
                /\ ~ BodyRan

\* a protected page was asked for with the cookie of a session that was
\* issued and is gone from the store
C5_Witness ==
    /\ ToSessionProtected
    /\ request.cookie \in issued
    /\ ~ redis_has(redis_db, request.cookie)
    /\ response.status_code = 302

(* ------------------------------------------------------------------ *)
(* C7                                                                  *)
(* ------------------------------------------------------------------ *)

\* what a GET /sign-out step does to the store and answers
C7_SignOutStep ==
    request'.route = "/sign-out" =>
        /\ ~ redis_has(redis_db', request'.cookie)
        /\ \A k \in DOMAIN redis_db \ {request'.cookie} :
              redis_has(redis_db', k) /\ redis_db'[k] = redis_db[k]
        /\ DOMAIN redis_db' \subseteq DOMAIN redis_db
        /\ ~ redis_has(redis_db, request'.cookie) => redis_db' = redis_db
        /\ response'.status_code = 302
        /\ response'.location = WELCOME_URL
        /\ response'.delete_cookie
        /\ response'.set_cookie = "None"

\* a session id whose record has left the store never gets a record again
C7_GoneStaysGone ==
    \A t \in issued : ~ redis_has(redis_db, t) => ~ redis_has(redis_db', t)

\* a protected route serves only a request whose record is in the store
C7_ServedHasRecord ==
    (ToSessionProtected /\ (Validated \/ BodyRan))
        => redis_has(redis_db, request.cookie)

\* C7: after GET /sign-out with cookie t the store holds no record for t, the
\* response clears the cookie and redirects to the welcome page, no later
\* request to a protected route with t is served, every other record is left
\* unchanged, and a sign-out without cookie or with an unknown token changes
\* nothing in the store.
C7_SignOutDeletesToken ==
    /\ [][C7_SignOutStep]_vars
    /\ [][C7_GoneStaysGone]_vars
    /\ [] C7_ServedHasRecord

\* a sign-out of an issued session while another session is in the store
C7_Witness ==
    /\ request.route = "/sign-out"
    /\ request.cookie \in issued
    /\ ~ redis_has(redis_db, request.cookie)
    /\ \E k \in DOMAIN redis_db : k # request.cookie
    /\ response.delete_cookie

(* ------------------------------------------------------------------ *)
(* C8                                                                  *)
(* ------------------------------------------------------------------ *)

\* a session is accepted only while it is younger than 15 seconds, and the
\* cookie /callback sets lives as long as the record it wrote
C8_AcceptedWhileYoung ==
    /\ Validated => redis_db[request.cookie].age < SESSION_DURATION
    /\ (request.route = "/callback" /\ response.set_cookie \in Tokens)
          => /\ redis_has(redis_db, response.set_cookie)
             /\ response.max_age = redis_db[response.set_cookie].ttl
             /\ redis_db[response.set_cookie].age = 0

\* a step that creates a record, raises its ttl or restarts its age is a
\* successful /callback issuing that session
C8_OnlyCallbackExtends ==
    \A k \in DOMAIN redis_db' :
        ( \/ k \notin DOMAIN redis_db
          \/ redis_db'[k].ttl > redis_db[k].ttl
          \/ redis_db'[k].age < redis_db[k].age )
            => /\ request'.route = "/callback"
               /\ response'.status_code = 302
               /\ response'.set_cookie = k

\* C8: a session issued by /callback is accepted by validate_session only
\* during the 15 seconds after issuance, the cookie's max-age equals the store
\* entry's time-to-live, and no operation other than a successful /callback
\* creates, refreshes or extends a session record.
C8_FixedLifetime ==
    [] C8_AcceptedWhileYoung /\ [][C8_OnlyCallbackExtends]_vars

\* a session is served in the last second of its life
C8_Witness ==
    /\ Validated
    /\ redis_db[request.cookie].age = SESSION_DURATION - 1
    /\ redis_db[request.cookie].ttl = 1

(* ------------------------------------------------------------------ *)
(* C9                                                                  *)
(* ------------------------------------------------------------------ *)

\* the request being answered is a /callback that did not pass every check
C9_Failed(req) ==
    /\ req.route = "/callback"
    /\ \/ req.code = "None"
       \/ ~ req.idp.http_ok
       \/ ~ req.idp.has_token
       \/ ~ req.idp.sig_ok
       \/ req.idp.expired
       \/ ~ req.idp.has_sub
       \/ req.idp.sub = <<>>

\* the exception and the response each cause of failure gives
C9_Outcome(req, resp) ==
    /\ req.code = "None"
         => /\ resp.exc = HTTPException(400, "Authorization code not provided/missing.")
            /\ resp.status_code = 400 /\ resp.kind = "json"
    /\ (req.code # "None" /\ ~ req.idp.http_ok)
         => resp.status_code = 500 /\ resp.kind = "json"
    /\ (req.idp.http_ok /\ ~ req.idp.has_token)
         => resp.status_code = 401 /\ resp.kind = "json"
    /\ (req.idp.has_token /\ ~ req.idp.sig_ok)
         => /\ resp.exc = HTTPException(401, "Invalid Token")
            /\ resp.status_code = 401 /\ resp.kind = "json"
    /\ (req.idp.sig_ok /\ req.idp.expired)
         => /\ resp.exc = HTTPException(401, "Token has expired")
            /\ resp.status_code = 302 /\ resp.location = WELCOME_URL
    /\ (req.idp.sig_ok /\ ~ req.idp.expired
          /\ (~ req.idp.has_sub \/ req.idp.sub = <<>>))
         => resp.status_code = 401 /\ resp.kind = "json"

\* C9: whenever /callback fails the session store is left unchanged, no
\* session cookie is set and the outcome is the matching error: 400 without a
\* code, 500 for a failed token request, 401 for a response without token, 401
\* 'Invalid Token' for a bad signature, 401 'Token has expired' (turned into
\* the welcome-page redirect) for an expired JWT, 401 for a JWT without subject.
C9_CallbackFailureLeavesNoTrace ==
    [][ C9_Failed(request') =>
          /\ redis_db' = redis_db
          /\ issued' = issued
          /\ response'.set_cookie = "None"
          /\ C9_Outcome(request', response') ]_vars

\* /callback is refused for an expired JWT while a session is in the store
C9_Witness ==
    /\ request.route = "/callback"
    /\ request.idp.sig_ok
    /\ request.idp.expired
    /\ response.status_code = 302
    /\ DOMAIN redis_db # {}

(* ------------------------------------------------------------------ *)
(* C6                                                                  *)
(* ------------------------------------------------------------------ *)

\* C6: the identity validate_session hands to a handler has one of the three
\* roles, the one its username's suffix names, whatever the stored payload
\* says.
C6_RoleIsOneOfThree ==
    Validated =>
        /\ response.user.role \in Roles
        /\ EndsWith(response.user.username, <<"_", "u", "1">>)
             => response.user.role = "customer"
        /\ EndsWith(response.user.username, <<"_", "u", "2">>)
             => response.user.role = "bank_cashier"
        /\ EndsWith(response.user.username, <<"_", "u", "3">>)
             => response.user.role = "disco_employee"
        /\ json_loads(redis_get(redis_db, request.cookie)).role = NoneRole

(* ------------------------------------------------------------------ *)
(* C10                                                                 *)
(* ------------------------------------------------------------------ *)

\* C10: POST /bill-adjustments calls fun_adjust_Bill only when the bill exists,
\* the submitted original amount equals the amount due and the bill is unpaid;
\* when one of these checks fails it renders the error page without calling
\* the function, and it renders the receipt only when the function returned 1.
C10_AdjustOnlyAfterChecks ==
    (request.method = "POST" /\ request.route = "/bill-adjustments") =>
        /\ "fun_adjust_Bill" \in response.db_calls
             => /\ request.db.bill_found
                /\ request.form.original_bill_amount = request.db.amount_due
                /\ request.db.payment_status = "unpaid"
        /\ ( \/ ~ request.db.bill_found
             \/ request.form.original_bill_amount # request.db.amount_due
             \/ request.db.payment_status = "paid" )
             => /\ response.body = "error.html"
                /\ "fun_adjust_Bill" \notin response.db_calls
        /\ response.body = "adjustment_receipt.html"
             => /\ request.db.func_result = 1
                /\ "fun_adjust_Bill" \in response.db_calls

\* an adjustment went through and its receipt is rendered
C10_Witness ==
    /\ request.method = "POST"
    /\ request.route = "/bill-adjustments"
    /\ response.body = "adjustment_receipt.html"
    /\ "fun_adjust_Bill" \in response.db_calls

====
